---------------------------- MODULE Spec2Model ----------------------------
(***************************************************************************)
(* Casper snap: transaction decoding, argument formatting and signing.     *)
(*                                                                         *)
(*   packages/snap/src/utils.ts      parseDeployArg, parseTransferData,    *)
(*                                   convertMotesToCasper,                 *)
(*                                   transactionToObject,                  *)
(*                                   addSignatureAndValidateTransaction    *)
(*   packages/snap/src/index.tsx     getCSPRAddress, promptUserDeployInfo, *)
(*   (kept in index.test.tsx)        sign, signMessage, onRpcRequest       *)
(*                                                                         *)
(* A JavaScript string is a TLA+ string where it is only built and         *)
(* compared, and a sequence of one-character strings where the code looks  *)
(* inside it (the motes amount); StrOf turns the second into the first.    *)
(***************************************************************************)
EXTENDS Integers, Sequences, FiniteSets, TLC

VARIABLES
    motes,        \* SpecMotes: the characters of the transfer's 'amount' string
    transferArgs, \* SpecMotes: what parseTransferData returned for it
    fmtArg,       \* SpecFormat: a CLValue
    fmtOut,       \* SpecFormat: what parseDeployArg returned for it
    wallet,       \* Spec: the key the host's key derivation gives for an index >= 0
    inv,          \* Spec: the invocations of onRpcRequest, each with its own locals
    decodeTx,     \* SpecDecode: a Transaction
    decodeView    \* SpecDecode: what transactionToObject returned or threw for it

vars == <<motes, transferArgs, fmtArg, fmtOut, wallet, inv, decodeTx, decodeView>>
decodeVars == <<decodeTx, decodeView>>
rpcVars == <<wallet, inv>>
motesVars == <<motes, transferArgs>>
fmtVars == <<fmtArg, fmtOut>>

(***************************************************************************)
(* Bounds of the model.                                                    *)
(***************************************************************************)
MaxHead == 3      \* free characters at the start of a motes string
MaxZeros == 13    \* '0' characters that may follow them
MaxDepth == 2     \* nesting depth of the CLValues formatted
MaxInvocations == 2   \* invocations of onRpcRequest in flight together
MaxArgs == 2      \* arguments a decoded session or payload declares

(***************************************************************************)
(* Strings as character sequences.                                         *)
(***************************************************************************)
Digits == {"0", "1", "2", "3", "4", "5", "6", "7", "8", "9"}

RECURSIVE StrOf(_)
StrOf(cs) == IF cs = <<>> THEN "" ELSE Head(cs) \o StrOf(Tail(cs))

Zeros(n) == [i \in 1..n |-> "0"]

\* the positions of ds that hold something else than '0'
NonZeroAt(ds) == {i \in 1..Len(ds) : ds[i] # "0"}


StripLeadingFrom(ds, nz) ==
    IF nz = {} THEN (IF ds = <<>> THEN <<>> ELSE <<"0">>)
    ELSE SubSeq(ds, CHOOSE i \in nz : \A j \in nz : i <= j, Len(ds))

\* leading zeros dropped, the last digit kept: "007" -> "7", "000" -> "0"
StripLeadingZeros(ds) == StripLeadingFrom(ds, NonZeroAt(ds))

StripTrailingFrom(ds, nz) ==
    IF nz = {} THEN <<>>
    ELSE SubSeq(ds, 1, CHOOSE i \in nz : \A j \in nz : i >= j)

\* trailing zeros dropped: "500" -> "5", "000" -> ""
StripTrailingZeros(ds) == StripTrailingFrom(ds, NonZeroAt(ds))

AllIn(cs, S) == \A i \in 1..Len(cs) : cs[i] \in S

CountOf(cs, c) == Cardinality({i \in 1..Len(cs) : cs[i] = c})

\* The index of the first c in cs, or 0.
IndexOf(cs, c) ==
    IF \E i \in 1..Len(cs) : cs[i] = c
    THEN CHOOSE i \in 1..Len(cs) : cs[i] = c /\ \A j \in 1..(i - 1) : cs[j] # c
    ELSE 0

\* s or, when s is empty, the string "0"
OrZero(s) == IF s = <<>> THEN <<"0">> ELSE s

(***************************************************************************)
(* @ethersproject/bignumber as utils.ts uses it.  A BigNumber is           *)
(* [neg, digits]: arbitrary precision, digits without leading zeros.       *)
(* Every operator takes the values it needs as parameters, so each         *)
(* intermediate result of the library's code is computed once.             *)
(***************************************************************************)
\* FixedNumber's default format is "fixed" = fixed128x18: 18 decimals, signed.
FixedDecimals == 18

\* BigNumber.from(decimal string), for a string of digits
BigNumberFrom(ds) == [neg |-> FALSE, digits |-> StripLeadingZeros(OrZero(ds))]

BNIsZero(a) == a.digits = <<"0">>

\* a.mul(10^n): the multiplier 10^18 is the only factor the code has
BNMulPow10(a, n) ==
    IF BNIsZero(a) THEN a ELSE [a EXCEPT !.digits = a.digits \o Zeros(n)]

\* a.add(b) where a is a multiple of 10^n and 0 <= b < 10^n, as in
\* wholeValue.mul(multiplier).add(fractionValue): b fills a's last n digits
BNAddBelowPow10(a, b, n) ==
    IF BNIsZero(a) THEN b
    ELSE [neg |-> FALSE,
          digits |-> SubSeq(a.digits, 1, Len(a.digits) - n)
                         \o Zeros(n - Len(b.digits)) \o b.digits]

\* a.mul(NegativeOne) when negative
BNSigned(negative, a) ==
    IF negative /\ ~BNIsZero(a) THEN [a EXCEPT !.neg = ~a.neg] ELSE a

\* a.div(10^n) of a non-negative a: the last n digits dropped
BNDivPow10(a, n) ==
    [neg |-> FALSE,
     digits |-> IF Len(a.digits) > n THEN SubSeq(a.digits, 1, Len(a.digits) - n)
                ELSE <<"0">>]

\* a.mod(10^n) of a non-negative a, as n digits
BNModPow10(a, n) ==
    IF Len(a.digits) > n
    THEN SubSeq(a.digits, Len(a.digits) - n + 1, Len(a.digits))
    ELSE Zeros(n - Len(a.digits)) \o a.digits

\* the number of zeros of a power of ten given by its digits, or -1
Pow10Exponent(ds) ==
    IF Len(ds) >= 1 /\ ds[1] = "1" /\ AllIn(Tail(ds), {"0"}) THEN Len(ds) - 1 ELSE -1

Throw == [threw |-> TRUE]
Ok(v) == [threw |-> FALSE, value |-> v]

\* value.split("."): <<whole, fraction>>, dot the index of the first "."
SplitAt(body, dot) ==
    IF dot = 0 THEN <<body, <<>>>>
    ELSE <<SubSeq(body, 1, dot - 1), SubSeq(body, dot + 1, Len(body))>>

\* wei = whole * 10^decimals + fraction, the fraction padded to decimals digits
parseFixedWei(negative, whole, fraction, decimals) ==
    IF Len(fraction) > decimals THEN Throw   \* fractional component exceeds decimals
    ELSE Ok(BNSigned(negative,
                BNAddBelowPow10(
                    BNMulPow10(BigNumberFrom(whole), decimals),
                    BigNumberFrom(OrZero(fraction) \o Zeros(decimals - Len(OrZero(fraction)))),
                    decimals)))

parseFixedComps(negative, comps, decimals) ==
    parseFixedWei(negative, OrZero(comps[1]),
                  StripTrailingZeros(OrZero(comps[2])), decimals)

parseFixedBody(negative, body, decimals) ==
    IF ~(Len(body) >= 1 /\ AllIn(body, Digits \cup {"."}))
    THEN Throw                                     \* /^-?[0-9.]+$/: invalid decimal value
    ELSE IF body = <<".">> THEN Throw              \* missing value
    ELSE IF CountOf(body, ".") > 1 THEN Throw      \* too many decimal points
    ELSE parseFixedComps(negative, SplitAt(body, IndexOf(body, ".")), decimals)

\* parseFixed(value, decimals): a BigNumber, or a thrown error
parseFixed(value, decimals) ==
    IF Len(value) > 0 /\ Head(value) = "-"
    THEN parseFixedBody(TRUE, Tail(value), decimals)
    ELSE parseFixedBody(FALSE, value, decimals)

formatFixedText(negative, whole, fraction, decimals) ==
    (IF negative THEN <<"-">> ELSE <<>>)
        \o (IF decimals = 0 THEN whole ELSE whole \o <<".">> \o OrZero(fraction))

\* formatFixed(value, decimals): the decimal string of a BigNumber; the fraction
\* is fraction.match(/^([0-9]*[1-9]|0)(0*)/)[1]
formatFixed(value, decimals) ==
    formatFixedText(value.neg,
                    BNDivPow10(value, decimals).digits,
                    StripTrailingZeros(BNModPow10(value, decimals)),
                    decimals)

FixedNumberOf(numeric) ==
    IF numeric.threw THEN Throw ELSE Ok(formatFixed(numeric.value, FixedDecimals))

\* FixedNumber.fromString(value): the FixedNumber's _value, or a thrown error
FixedNumberFromString(value) == FixedNumberOf(parseFixed(value, FixedDecimals))

\* FixedNumber.fromValue(value, decimals)
FixedNumberFromValue(value, decimals) ==
    FixedNumberFromString(formatFixed(value, decimals))

\* a.mul(this.format._multiplier).div(b), b a power of ten
DivParsed(a, b) ==
    FixedNumberFromValue(
        BNSigned(a.neg,
                 BNDivPow10(BNMulPow10(a, FixedDecimals), Pow10Exponent(b.digits))),
        FixedDecimals)

\* this.divUnsafe(other)
FixedNumberDivUnsafe(this, other) ==
    DivParsed(parseFixed(this, FixedDecimals).value,
              parseFixed(other, FixedDecimals).value)

(***************************************************************************)
(* utils.ts: convertMotesToCasper                                          *)
(***************************************************************************)
\* the literal 1000000000 of FixedNumber.from(1000000000)
MotesPerCasper == BigNumberFrom(<<"1">> \o Zeros(9))

\* try { return ....toString() } catch (error) { return '0' }
ToStringOrZero(r) == IF r.threw THEN <<"0">> ELSE r.value

DivideOrZero(n, d) ==
    IF n.threw \/ d.threw THEN <<"0">>
    ELSE ToStringOrZero(FixedNumberDivUnsafe(n.value, d.value))

convertMotesToCasper_WrongUnit(motesAmount) ==
    DivideOrZero(FixedNumberFromString(motesAmount),
                 FixedNumberFromValue(BigNumberFrom(<<"1">> \o Zeros(8)), 0))

convertMotesToCasper(motesAmount) ==
    DivideOrZero(FixedNumberFromString(motesAmount),
                 FixedNumberFromValue(MotesPerCasper, 0))

(***************************************************************************)
(* CLValues.  Every value is a record with a tag (its TypeID); the fields  *)
(* the formatter reads follow.  str is what the value's own toString()     *)
(* gives, vectorType the property sanitiseNestedLists reads.               *)
(***************************************************************************)
CLUnit == [tag |-> "Unit", vectorType |-> "undefined"]
CLKey(s) == [tag |-> "Key", str |-> s, vectorType |-> "undefined"]
CLURef(s) == [tag |-> "URef", str |-> s, vectorType |-> "undefined"]
CLOptionNone(s, t) ==
    [tag |-> "Option", isEmpty |-> TRUE, str |-> s, typeStr |-> t,
     vectorType |-> "undefined"]
CLOptionSome(v) ==
    [tag |-> "Option", isEmpty |-> FALSE, inner |-> v, vectorType |-> "undefined"]
CLList(es, vt) == [tag |-> "List", elements |-> es, vectorType |-> vt]
CLByteArray(s) == [tag |-> "ByteArray", str |-> s, vectorType |-> "undefined"]
CLResult(ok, v) ==
    [tag |-> "Result", isSuccess |-> ok, inner |-> v, vectorType |-> "undefined"]
\* a map holds <<key, value>> pairs in insertion order, keys unique
CLMap(ps) == [tag |-> "Map", pairs |-> ps, vectorType |-> "undefined"]
CLTuple1(v) == [tag |-> "Tuple1", inner |-> v, vectorType |-> "undefined"]
CLTuple2(a, b) == [tag |-> "Tuple2", items |-> <<a, b>>, vectorType |-> "undefined"]
CLTuple3(a, b, c) ==
    [tag |-> "Tuple3", items |-> <<a, b, c>>, vectorType |-> "undefined"]
\* publicKey is undefined when hasKey is FALSE
CLPublicKey(has, h) ==
    [tag |-> "PublicKey", hasKey |-> has, hex |-> h, vectorType |-> "undefined"]
\* an AccountHash instance: no TypeID of its own
CLAccountHash(p) ==
    [tag |-> "Any", isAccountHash |-> TRUE, prefixed |-> p, str |-> p,
     vectorType |-> "undefined"]
\* a value of any other type (String, U64, U512, Bool, ...)
CLOther(t, s) ==
    [tag |-> t, isAccountHash |-> FALSE, str |-> s, vectorType |-> "undefined"]

(***************************************************************************)
(* JavaScript objects used as ordered maps.  An object is a sequence of    *)
(* <<key, value>> pairs in insertion order; Object.entries and forEach     *)
(* over its keys list the canonical array indices first, ascending, then   *)
(* the other keys in insertion order.                                      *)
(***************************************************************************)
\* the number a key stands for when it is a canonical array index, else -1
ArrayIndexOf(k) ==
    CASE k = "0" -> 0 [] k = "1" -> 1 [] k = "2" -> 2 [] OTHER -> -1

HasKey(obj, k) == \E i \in 1..Len(obj) : obj[i][1] = k

\* obj[k] = v
SetKey(obj, k, v) ==
    IF HasKey(obj, k)
    THEN [i \in 1..Len(obj) |-> IF obj[i][1] = k THEN <<k, v>> ELSE obj[i]]
    ELSE Append(obj, <<k, v>>)

RECURSIVE SelectPairs(_, _)
SelectPairs(obj, n) ==
    IF obj = <<>> THEN <<>>
    ELSE IF ArrayIndexOf(Head(obj)[1]) = n
         THEN <<Head(obj)>> \o SelectPairs(Tail(obj), n)
         ELSE SelectPairs(Tail(obj), n)

ObjectEntries(obj) ==
    SelectPairs(obj, 0) \o SelectPairs(obj, 1) \o SelectPairs(obj, 2)
        \o SelectPairs(obj, -1)

(***************************************************************************)
(* utils.ts: sanitiseNestedLists, parseDeployArg.  A display value is a    *)
(* string, [kind |-> "str", s], or an array, [kind |-> "arr", items]; a    *)
(* thrown error is [kind |-> "throw"].                                     *)
(***************************************************************************)
DStr(s) == [kind |-> "str", s |-> s]
DArr(xs) == [kind |-> "arr", items |-> xs]
DThrow == [kind |-> "throw"]

RECURSIVE JoinComma(_)
RECURSIVE TemplateString(_)
\* `${d}`: a string as it is, an array joined by commas
TemplateString(d) == IF d.kind = "str" THEN d.s ELSE JoinComma(d.items)
JoinComma(ds) ==
    IF ds = <<>> THEN ""
    ELSE IF Len(ds) = 1 THEN TemplateString(ds[1])
    ELSE TemplateString(ds[1]) \o "," \o JoinComma(Tail(ds))

AnyThrow(ds) == \E i \in 1..Len(ds) : ds[i].kind = "throw"

RECURSIVE parseDeployArg(_)
RECURSIVE sanitiseNestedLists(_)

sanitiseNestedLists_Expand(value) == parseDeployArg(value)

sanitiseNestedLists(value) ==
    LET parsedValue == parseDeployArg(value)
    IN  IF parsedValue.kind = "arr"
        THEN DStr("<" \o value.vectorType \o ">[...]")
        ELSE parsedValue

\* elements.map(member => sanitiseNestedLists(member))
MapSanitise(members) ==
    LET out == [i \in 1..Len(members) |-> sanitiseNestedLists(members[i])]
    IN  IF AnyThrow(out) THEN DThrow ELSE DArr(out)

RECURSIVE MapEntriesString(_)
\* mapParsedString += `${key}=${parseDeployArg(value)}` over the entries
MapEntriesString(entries) ==
    IF entries = <<>> THEN DStr("")
    ELSE LET first == parseDeployArg(Head(entries)[2])
             rest == MapEntriesString(Tail(entries))
         IN  IF first.kind = "throw" \/ rest.kind = "throw" THEN DThrow
             ELSE DStr(Head(entries)[1] \o "=" \o TemplateString(first) \o rest.s)

parseDeployArgDefault_Throws(arg) ==
    IF arg.isAccountHash THEN DStr(arg.prefixed) ELSE DThrow

\* the default arm: AccountHash has no TypeID, anything else is toString()
parseDeployArgDefault(arg) ==
    IF arg.isAccountHash THEN DStr(arg.prefixed) ELSE DStr(arg.str)

parseDeployArg(arg) ==
    CASE arg.tag = "Unit" -> DStr("CLValue Unit")
      [] arg.tag = "Key" -> DStr(arg.str)
      [] arg.tag = "URef" -> DStr(arg.str)
      [] arg.tag = "Option" ->
            IF ~arg.isEmpty THEN parseDeployArg(arg.inner)
            ELSE DStr(arg.str \o " " \o arg.typeStr)
      [] arg.tag = "List" -> MapSanitise(arg.elements)
      [] arg.tag = "ByteArray" -> DStr(arg.str)
      [] arg.tag = "Result" ->
            LET status == IF arg.isSuccess THEN "OK:" ELSE "ERR:"
                parsed == parseDeployArg(arg.inner)
            IN  IF parsed.kind = "throw" THEN DThrow
                ELSE DStr(status \o " " \o TemplateString(parsed))
      [] arg.tag = "Map" -> MapEntriesString(ObjectEntries(arg.pairs))
      [] arg.tag = "Tuple1" -> parseDeployArg(arg.inner)
      [] arg.tag = "Tuple2" -> MapSanitise(arg.items)
      [] arg.tag = "Tuple3" -> MapSanitise(arg.items)
      [] arg.tag = "PublicKey" -> DStr(IF arg.hasKey THEN arg.hex ELSE "")
      [] OTHER -> parseDeployArgDefault(arg)

(***************************************************************************)
(* Hashes.  A hash is a sequence of bytes; toHex writes two lowercase hex  *)
(* characters per byte and Buffer.from(hex, 'hex') reads them back.        *)
(***************************************************************************)
HexChars ==
    <<"0", "1", "2", "3", "4", "5", "6", "7", "8", "9", "a", "b", "c", "d", "e", "f">>

NibbleOf(c) == CHOOSE n \in 0..15 : HexChars[n + 1] = c

RECURSIVE toHex(_)
toHex(bytes) ==
    IF bytes = <<>> THEN <<>>
    ELSE <<HexChars[(Head(bytes) \div 16) + 1], HexChars[(Head(bytes) % 16) + 1]>>
             \o toHex(Tail(bytes))

RECURSIVE BufferFromHex(_)
BufferFromHex(hex) ==
    IF Len(hex) < 2 THEN <<>>
    ELSE <<NibbleOf(hex[1]) * 16 + NibbleOf(hex[2])>> \o BufferFromHex(Tail(Tail(hex)))

(***************************************************************************)
(* Transactions.  Args is an insertion-ordered Map from name to CLValue: a *)
(* sequence of <<name, value>> pairs.  A session holds each of its six     *)
(* optional items or NoItem.                                               *)
(***************************************************************************)
NoItem == [present |-> FALSE]
Item(args, entryPoint) == [present |-> TRUE, args |-> args, entryPoint |-> entryPoint]

\* args.get(name)
ArgsGet(args, name) ==
    IF HasKey(args, name)
    THEN (CHOOSE i \in 1..Len(args) : args[i][1] = name)
    ELSE 0

\* a numeric CLValue (U512, U64) whose toString() is the characters cs
CLNumber(t, cs) ==
    [tag |-> t, isAccountHash |-> FALSE, chars |-> cs, str |-> StrOf(cs),
     vectorType |-> "undefined"]

\* CLValue.toString() of the values a transfer carries
CLToString(v) ==
    CASE v.tag = "PublicKey" -> IF v.hasKey THEN v.hex ELSE ""
      [] v.tag = "Option" /\ ~v.isEmpty -> v.inner.str
      [] OTHER -> v.str

\* the characters of args.get(name)?.toString() ?? ''
ArgChars(args, name) ==
    LET i == ArgsGet(args, name)
    IN  IF i = 0 THEN <<>> ELSE args[i][2].chars

\* args.get(name)?.toString()
ArgString(args, name) ==
    LET i == ArgsGet(args, name)
    IN  IF i = 0 THEN [kind |-> "undefined"] ELSE DStr(CLToString(args[i][2]))

TransferArgsObject(recipient, amount, id) ==
    <<<<"Recipient", recipient>>,
      <<"Amount", DStr(StrOf(convertMotesToCasper(amount)) \o " CSPR")>>,
      <<"Motes", DStr(StrOf(amount))>>,
      <<"Transfer ID", id>>>>

parseTransferData(transferDeploy) ==
    TransferArgsObject(ArgString(transferDeploy.args, "target"),
                       ArgChars(transferDeploy.args, "amount"),
                       ArgString(transferDeploy.args, "id"))

RECURSIVE ParseArgsInto(_, _)
\* args.forEach((argument, key) => { deployArgs[key] = parseDeployArg(argument) })
ParseArgsInto(deployArgs, args) ==
    IF args = <<>> THEN deployArgs
    ELSE ParseArgsInto(SetKey(deployArgs, Head(args)[1], parseDeployArg(Head(args)[2])),
                       Tail(args))

ArgsThrow(deployArgs) == \E i \in 1..Len(deployArgs) : deployArgs[i][2].kind = "throw"

DeployTypeOf_ModuleBytesFirst(session) ==
    IF session.moduleBytes.present THEN "WASM-Based Deploy"
    ELSE IF session.transfer.present THEN "Transfer"
    ELSE IF session.storedContractByHash.present \/ session.storedContractByName.present
         THEN "Contract Call"
    ELSE "Contract Package Call"

\* the deploy's kind label
DeployTypeOf(session) ==
    IF session.transfer.present THEN "Transfer"
    ELSE IF session.moduleBytes.present THEN "WASM-Based Deploy"
    ELSE IF session.storedContractByHash.present \/ session.storedContractByName.present
         THEN "Contract Call"
    ELSE "Contract Package Call"

\* the stored contract item the arguments are read from, or NoItem
StoredContractOf(session) ==
    IF session.storedContractByHash.present THEN session.storedContractByHash
    ELSE IF session.storedContractByName.present THEN session.storedContractByName
    ELSE IF session.storedVersionedContractByHash.present
         THEN session.storedVersionedContractByHash
    ELSE IF session.storedVersionedContractByName.present
         THEN session.storedVersionedContractByName
    ELSE NoItem

Raised(msg) == [threw |-> TRUE, message |-> msg]

\* the stored-contract branch: the arguments, then the 'Entry Point' entry
StoredContractArgs(storedContract, session) ==
    IF ~storedContract.present
    THEN Raised("Stored Contract could not be parsed. Provided session code: "
                    \o session.bytes)
    ELSE Ok(SetKey(ParseArgsInto(<<>>, storedContract.args),
                   "Entry Point", DStr(storedContract.entryPoint)))

\* deployArgs of a legacy deploy, or the thrown Error
DeployArgsOf(session) ==
    IF session.transfer.present THEN Ok(parseTransferData(session.transfer))
    ELSE IF session.moduleBytes.present
    THEN Ok(ParseArgsInto(<<>>, session.moduleBytes.args))
    ELSE StoredContractArgs(StoredContractOf(session), session)

\* initiatorAddr.publicKey ? publicKey.toHex() : accountHash?.toHex()
DeployAccountOf(initiatorAddr) ==
    IF initiatorAddr.hasPublicKey THEN initiatorAddr.publicKeyHex
    ELSE initiatorAddr.accountHashHex

DeployToObject_BodyHash(transaction, signingKey, args) ==
    IF args.threw THEN args
    ELSE IF ArgsThrow(args.value) THEN Raised("TypeError")
    ELSE Ok([deployHash |-> toHex(transaction.bodyHash),
             signingKey |-> signingKey,
             account |-> DeployAccountOf(transaction.initiatorAddr),
             bodyHash |-> toHex(transaction.bodyHash),
             chainName |-> transaction.chainName,
             gasPrice |-> transaction.gasPrice,
             deployType |-> DeployTypeOf(transaction.session),
             deployArgs |-> args.value])

DeployToObject(transaction, signingKey, args) ==
    IF args.threw THEN args
    ELSE IF ArgsThrow(args.value) THEN Raised("TypeError")
    ELSE Ok([deployHash |-> toHex(transaction.hash),
             signingKey |-> signingKey,
             account |-> DeployAccountOf(transaction.initiatorAddr),
             bodyHash |-> toHex(transaction.bodyHash),
             chainName |-> transaction.chainName,
             gasPrice |-> transaction.gasPrice,
             deployType |-> DeployTypeOf(transaction.session),
             deployArgs |-> args.value])

TransactionV1ToObject(transaction, signingKey, deployArgs) ==
    IF ArgsThrow(deployArgs) THEN Raised("TypeError")
    ELSE Ok([deployHash |-> toHex(transaction.hash),
             signingKey |-> signingKey,
             account |-> DeployAccountOf(transaction.initiatorAddr),
             bodyHash |-> transaction.entryPoint.bytesHex,
             chainName |-> transaction.chainName,
             deployType |-> IF transaction.entryPoint.hasCustomEntryPoint
                            THEN transaction.entryPoint.customEntryPoint
                            ELSE transaction.entryPoint.type,
             deployArgs |-> deployArgs])

\* transactionToObject: Ok(the view shown to the user) or the thrown Error.  The
\* timestamp's locale rendering is left out of the view.
transactionToObject(transaction, signingKey) ==
    IF transaction.variant = "deploy"
    THEN DeployToObject(transaction, signingKey, DeployArgsOf(transaction.session))
    ELSE IF transaction.variant = "v1"
    THEN TransactionV1ToObject(transaction, signingKey,
                               ParseArgsInto(<<>>, transaction.args))
    ELSE Raised("Unsupported transaction type")

\* obj[k]
GetKey(obj, k) == obj[CHOOSE i \in 1..Len(obj) : obj[i][1] = k][2]

(***************************************************************************)
(* SpecMotes: parseTransferData over transfers whose 'amount' is any       *)
(* string of up to MaxHead characters followed by up to MaxZeros zeros.    *)
(***************************************************************************)
MotesAlphabet == {"0", "1", "5", "9", ".", "-", "x"}

TransferArgsOf(amountPairs) ==
    amountPairs \o <<<<"target", CLPublicKey(TRUE, "010068920746ecf5")>>,
                     <<"id", CLOptionSome(CLNumber("U64", <<"3", "5">>))>>>>

TransferWith(amountChars) ==
    Item(TransferArgsOf(<<<<"amount", CLNumber("U512", amountChars)>>>>), "")

NoKey == [curve |-> "none"]

\* nothing typed, nothing parsed
MotesInit ==
    /\ motes = <<>>
    /\ transferArgs = <<>>
    /\ fmtArg = CLUnit
    /\ fmtOut = DStr("")
    /\ wallet = NoKey
    /\ inv = <<>>
    /\ decodeTx = <<>>
    /\ decodeView = <<>>

ParseNoAmount ==
    /\ motes = <<>>
    /\ transferArgs = <<>>
    /\ transferArgs' = parseTransferData(Item(TransferArgsOf(<<>>), ""))
    /\ UNCHANGED <<motes, fmtArg, fmtOut, wallet, inv, decodeVars>>

TypeChar ==
    /\ Len(motes) < MaxHead
    /\ \E c \in MotesAlphabet :
          /\ motes' = Append(motes, c)
          /\ transferArgs' = parseTransferData(TransferWith(Append(motes, c)))
    /\ UNCHANGED <<fmtVars, rpcVars, decodeVars>>

TypeZero ==
    /\ Len(motes) >= 1
    /\ Len(motes) < MaxHead + MaxZeros
    /\ motes' = Append(motes, "0")
    /\ transferArgs' = parseTransferData(TransferWith(Append(motes, "0")))
    /\ UNCHANGED <<fmtVars, rpcVars, decodeVars>>

MotesNext == ParseNoAmount \/ TypeChar \/ TypeZero

SpecMotes == MotesInit /\ [][MotesNext]_vars

(***************************************************************************)
(* C10: the transfer's 'Amount' entry.                                     *)
(***************************************************************************)
IsDecimalInteger(cs) == Len(cs) >= 1 /\ AllIn(cs, Digits)

\* an optional sign, then digits with at most one decimal point among them
IsNumeric(cs) ==
    LET body == IF Len(cs) > 0 /\ Head(cs) = "-" THEN Tail(cs) ELSE cs
    IN  /\ AllIn(body, Digits \cup {"."})
        /\ CountOf(body, ".") <= 1
        /\ \E i \in 1..Len(body) : body[i] \in Digits

\* the digits of m / 10^9 before and after the decimal point: the point is
\* moved nine places to the left, nothing is rounded
QuotientWhole(m) ==
    LET n == StripLeadingZeros(m)
    IN  IF Len(n) > 9 THEN SubSeq(n, 1, Len(n) - 9) ELSE <<"0">>

QuotientFraction(m) ==
    LET n == StripLeadingZeros(m)
    IN  StripTrailingZeros(
            IF Len(n) > 9 THEN SubSeq(n, Len(n) - 8, Len(n))
            ELSE Zeros(9 - Len(n)) \o n)

\* "10", "0.000000001": no decimal point when the quotient is whole
PlainQuotient(m) ==
    IF QuotientFraction(m) = <<>> THEN QuotientWhole(m)
    ELSE QuotientWhole(m) \o <<".">> \o QuotientFraction(m)

\* "10.0", "0.000000001": always a decimal point and at least one digit after it
PointedQuotient(m) ==
    QuotientWhole(m) \o <<".">>
        \o (IF QuotientFraction(m) = <<>> THEN <<"0">> ELSE QuotientFraction(m))

Parsed == transferArgs # <<>>

AmountShown == GetKey(transferArgs, "Amount")

TransferDecoded ==
    /\ Len(transferArgs) = 4
    /\ \A k \in {"Recipient", "Amount", "Motes", "Transfer ID"} : HasKey(transferArgs, k)

\* C10 as claimed: for every motes amount given as a decimal integer string the
\* 'Amount' entry is the exact decimal quotient by 10^9 followed by ' CSPR', a
\* whole quotient written without a decimal point ("10000000000" -> "10 CSPR"),
\* and a malformed numeric string yields "0" without failing the decode.
C10_AmountAsClaimed ==
    Parsed =>
    /\ IsDecimalInteger(motes) =>
          AmountShown = DStr(StrOf(PlainQuotient(motes)) \o " CSPR")
    /\ ~IsNumeric(motes) => (AmountShown = DStr("0 CSPR") /\ TransferDecoded)

\* C10 amended: for every motes amount given as a decimal integer string the
\* 'Amount' entry is the exact decimal quotient by 10^9, always written with a
\* decimal point and at least one fractional digit ("10000000000" -> "10.0 CSPR",
\* "1" -> "0.000000001 CSPR"), followed by ' CSPR'; a malformed numeric string
\* yields "0" ("0 CSPR") and the decode still returns its four entries.
C10_AmountExactQuotient ==
    Parsed =>
    /\ IsDecimalInteger(motes) =>
          AmountShown = DStr(StrOf(PointedQuotient(motes)) \o " CSPR")
    /\ ~IsNumeric(motes) => (AmountShown = DStr("0 CSPR") /\ TransferDecoded)
    /\ GetKey(transferArgs, "Motes") = DStr(StrOf(motes))

C10_Witness ==
    /\ motes = <<"1">> \o Zeros(10)
    /\ AmountShown = DStr("10.0 CSPR")

(***************************************************************************)
(* SpecFormat: parseDeployArg over CLValues nested up to MaxDepth deep,    *)
(* built by wrapping a value into an Option, List, Result, Map or Tuple.   *)
(***************************************************************************)
EmptyList == CLList(<<>>, "undefined")

LeafValues ==
    { CLUnit,
      CLKey("hash-0101"),
      CLURef("uref-0101-007"),
      CLByteArray("0a0b"), CLByteArray(""),
      CLPublicKey(TRUE, "01ab"), CLPublicKey(FALSE, ""),
      CLAccountHash("account-hash-0101"),
      CLOther("String", "hello"), CLOther("String", ""),
      CLOptionNone("", "Option(U64)"), CLOptionNone("None", "Option(U64)"),
      EmptyList, CLList(<<>>, "U8"),
      CLMap(<<>>) }

Max(a, b) == IF a >= b THEN a ELSE b

RECURSIVE Depth(_)
RECURSIVE DepthOfAll(_)
DepthOfAll(vs) == IF vs = <<>> THEN 0 ELSE Max(Depth(Head(vs)), DepthOfAll(Tail(vs)))
Depth(v) ==
    CASE v.tag = "Option" -> IF v.isEmpty THEN 0 ELSE 1 + Depth(v.inner)
      [] v.tag = "List" -> IF v.elements = <<>> THEN 0 ELSE 1 + DepthOfAll(v.elements)
      [] v.tag = "Result" -> 1 + Depth(v.inner)
      [] v.tag = "Map" ->
            IF v.pairs = <<>> THEN 0
            ELSE 1 + DepthOfAll([i \in 1..Len(v.pairs) |-> v.pairs[i][2]])
      [] v.tag = "Tuple1" -> 1 + Depth(v.inner)
      [] v.tag \in {"Tuple2", "Tuple3"} -> 1 + DepthOfAll(v.items)
      [] OTHER -> 0

Format(v) ==
    /\ fmtArg' = v
    /\ fmtOut' = parseDeployArg(v)
    /\ UNCHANGED <<motesVars, rpcVars, decodeVars>>

FormatInit ==
    /\ fmtArg \in LeafValues
    /\ fmtOut = parseDeployArg(fmtArg)
    /\ motes = <<>>
    /\ transferArgs = <<>>
    /\ wallet = NoKey
    /\ inv = <<>>
    /\ decodeTx = <<>>
    /\ decodeView = <<>>

CanWrap == Depth(fmtArg) < MaxDepth

FormatOption == CanWrap /\ Format(CLOptionSome(fmtArg))

FormatList ==
    /\ CanWrap
    /\ \E es \in {<<fmtArg>>, <<fmtArg, fmtArg>>, <<CLUnit, fmtArg>>} :
          Format(CLList(es, "undefined"))

FormatResult == CanWrap /\ \E ok \in BOOLEAN : Format(CLResult(ok, fmtArg))

FormatMap ==
    /\ CanWrap
    /\ \E ps \in {<<<<"k", fmtArg>>>>, <<<<"b", fmtArg>>, <<"0", CLUnit>>>>} :
          Format(CLMap(ps))

FormatTuple1 == CanWrap /\ Format(CLTuple1(fmtArg))

FormatTuple2 ==
    /\ CanWrap
    /\ \E other \in {CLUnit, EmptyList} :
          \/ Format(CLTuple2(fmtArg, other))
          \/ Format(CLTuple2(other, fmtArg))

FormatTuple3 ==
    /\ CanWrap
    /\ \/ Format(CLTuple3(fmtArg, CLUnit, fmtArg))
       \/ Format(CLTuple3(EmptyList, fmtArg, CLUnit))

FormatNext ==
    \/ FormatOption
    \/ FormatList
    \/ FormatResult
    \/ FormatMap
    \/ FormatTuple1
    \/ FormatTuple2
    \/ FormatTuple3

SpecFormat == FormatInit /\ [][FormatNext]_vars

(***************************************************************************)
(* C9: the formatter never fails; when its result is empty.                *)
(***************************************************************************)
SupportedTags ==
    {"Unit", "Key", "URef", "Option", "List", "ByteArray", "Result", "Map",
     "Tuple1", "Tuple2", "Tuple3", "PublicKey"}

IsEmptyDisplay(d) ==
    \/ d.kind = "str" /\ d.s = ""
    \/ d.kind = "arr" /\ d.items = <<>>

\* the value whose rendering a present Option or a Tuple1 passes through
RECURSIVE Core(_)
Core(v) ==
    IF v.tag = "Option" /\ ~v.isEmpty THEN Core(v.inner)
    ELSE IF v.tag = "Tuple1" THEN Core(v.inner)
    ELSE v

\* the values that have nothing to show
RendersEmpty(v) ==
    \/ v.tag = "List" /\ v.elements = <<>>
    \/ v.tag = "Map" /\ v.pairs = <<>>
    \/ v.tag = "PublicKey" /\ ~v.hasKey
    \/ v.tag = "ByteArray" /\ v.str = ""
    \/ v.tag \notin SupportedTags /\ ~v.isAccountHash /\ v.str = ""

\* C9 as claimed: for every TypedValue of every supported tag and of any nesting,
\* format (parseDeployArg) never fails and returns a non-empty display value.
C9_FormatNeverEmpty ==
    (fmtArg.tag \in SupportedTags \/ fmtArg.isAccountHash) =>
        (fmtOut.kind # "throw" /\ ~IsEmptyDisplay(fmtOut))

\* C9 amended: for every TypedValue of every supported tag and of any nesting,
\* format never fails and returns a display value (a string or a sequence); the
\* display value is empty exactly when the value (seen through present Options
\* and Tuple1s) is an empty List, an empty Map, a PublicKey without a key or a
\* value whose own string is empty, and non-empty otherwise; a value with an
\* unknown tag degrades to its own string instead of propagating an error.
C9_FormatNeverFails ==
    /\ fmtOut.kind \in {"str", "arr"}
    /\ IsEmptyDisplay(fmtOut) <=> RendersEmpty(Core(fmtArg))
    /\ (fmtArg.tag \notin SupportedTags /\ ~fmtArg.isAccountHash) =>
           fmtOut = DStr(fmtArg.str)

C9_Witness ==
    /\ fmtArg = CLResult(TRUE, CLMap(<<<<"b", CLKey("hash-0101")>>, <<"0", CLUnit>>>>))
    /\ fmtOut = DStr("OK: 0=CLValue Unitb=hash-0101")

(***************************************************************************)
(* index.tsx: the snap's RPC surface.  The host's collaborators are the    *)
(* BIP-44 key derivation (snap_getBip44Entropy, getBIP44AddressKeyDeriver) *)
(* and the confirmation dialog (snap_dialog).  An invocation runs between  *)
(* its awaits without interruption; invocations interleave at the awaits.  *)
(***************************************************************************)
Invocations == 1..MaxInvocations

\* request.params.addressIndex; a missing index is the default, 0
AddressIndices == {-1, 0}

\* `${addressIndex}`
IndexString(n) == CASE n = -1 -> "-1" [] n = 0 -> "0" [] OTHER -> "1"

\* what the key derivation answers for a valid index: the curve tag, whether the
\* node carries private key bytes, and whether PublicKey.fromBytes accepts the
\* bytes getCSPRAddress builds from compressedPublicKey
Wallets ==
    [curve : {"ed25519", "secp256k1", "p256"},
     hasPrivateKey : BOOLEAN,
     publicKeyParses : BOOLEAN,
     compressedPublicKey : {<<"0", "x", "0", "3", "a", "b">>}]

RetPublicKey(hex) == [type |-> "publicKey", publicKey |-> hex]
RetError(msg) == [type |-> "error", error |-> msg]
RetFalse == [type |-> "false"]
RetDeploy(json) == [type |-> "deploy", deploy |-> json]
RetSignature(hex) == [type |-> "signature", signature |-> hex]
ThrownError(msg) == [type |-> "thrown", message |-> msg]
NoResult == [type |-> "none"]

\* bip44Nodeaddr(addressIndex): the key, or the deriver's error
bip44Nodeaddr_NoCheck(addressIndex, key) == Ok(key)

bip44Nodeaddr(addressIndex, key) ==
    IF addressIndex < 0
    THEN Raised("Invalid BIP-32 index: Must be a non-negative integer.")
    ELSE Ok(key)

\* getCSPRAddress's try/catch around PublicKey.fromBytes; the error text keeps the
\* curve and leaves out the key material the source interpolates after it
PublicKeyOf(addressKey) ==
    IF addressKey.publicKeyParses
    THEN RetPublicKey("02" \o StrOf(SubSeq(addressKey.compressedPublicKey, 3,
                                            Len(addressKey.compressedPublicKey))))
    ELSE RetError("Error Unsupported curve. Received " \o addressKey.curve
                      \o ". Only Secp256K1 && Ed25519 are supported.")

\* getCSPRAddress(addressIndex): Ok({publicKey} or {error}), or the thrown error
getCSPRAddress(derived) ==
    IF derived.threw THEN derived ELSE Ok(PublicKeyOf(derived.value))

\* the JSON of a request: malformed, or the transaction it encodes
MalformedJson == [wellFormed |-> FALSE]
JsonOf(transaction) == [wellFormed |-> TRUE, transaction |-> transaction]

\* Transaction.fromJson(deployJson): a fresh Transaction object, or a thrown error
TransactionFromJson(deployJson) ==
    IF deployJson.wellFormed THEN Ok(deployJson.transaction)
    ELSE Raised("The JSON can't be parsed as a Transaction.")

\* the catch block of sign
CaughtError_Rethrow(message) == ThrownError(message)

CaughtError(message) ==
    RetError("{} Error: " \o message \o " Unable to convert json into deploy object.")

\* Buffer.from(deployHash, 'hex') of deployHash = transaction.hash.toHex()
messageOf(transaction) == BufferFromHex(toHex(transaction.hash))

\* nacl.sign_detached(message, privateKeyBytes)
Ed25519Sign(message, key) ==
    [alg |-> "ed25519", digest |-> "none", signed |-> message,
     by |-> key.compressedPublicKey]

\* ecdsaSign(sha256(message), privateKeyBytes).signature
Secp256k1Sign_NoDigest(message, key) ==
    [alg |-> "secp256k1", digest |-> "none", signed |-> message,
     by |-> key.compressedPublicKey]

Secp256k1Sign(message, key) ==
    [alg |-> "secp256k1", digest |-> "sha256", signed |-> message,
     by |-> key.compressedPublicKey]

NoSignature == [alg |-> "none", digest |-> "none", signed |-> <<>>, by |-> <<>>]
NoTransaction == [variant |-> "none"]

\* transaction.setSignature(signature, PublicKey.fromHex(publicKeyHex))
setSignature(transaction, signature, publicKeyHex) ==
    [transaction EXCEPT
        !.approvals = Append(@, [signer |-> publicKeyHex, signature |-> signature])]

\* what a valid signature of the given algorithm is computed over
DigestOf(alg) == IF alg = "secp256k1" THEN "sha256" ELSE "none"

\* transaction.validate(): the body matches its hashes and every approval signs
\* the transaction's hash
validate(transaction) ==
    /\ transaction.bodyValid
    /\ \A k \in 1..Len(transaction.approvals) :
          /\ transaction.approvals[k].signature.signed = transaction.hash
          /\ transaction.approvals[k].signature.digest =
                 DigestOf(transaction.approvals[k].signature.alg)

\* what a step of an invocation leaves: the transaction object, the signature
\* computed, the result returned and the calls made, in order
Outcome(transaction, signature, result, events) ==
    [transaction |-> transaction, signature |-> signature, result |-> result,
     events |-> events]

ValidateSigned(signed, signature) ==
    Outcome(signed, signature,
            IF validate(signed) THEN RetDeploy(JsonOf(signed))
            ELSE RetError("Unable to verify deploy after signature."),
            <<"sign", "setSignature", "validate">>)

addSignatureAndValidateTransaction_NoValidate(transaction, signature, publicKeyHex) ==
    Outcome(setSignature(transaction, signature, publicKeyHex), signature,
            RetDeploy(JsonOf(setSignature(transaction, signature, publicKeyHex))),
            <<"sign", "setSignature", "validate">>)

addSignatureAndValidateTransaction_ValidateFirst(transaction, signature, publicKeyHex) ==
    Outcome(setSignature(transaction, signature, publicKeyHex), signature,
            IF validate(transaction)
            THEN RetDeploy(JsonOf(setSignature(transaction, signature, publicKeyHex)))
            ELSE RetError("Unable to verify deploy after signature."),
            <<"sign", "validate", "setSignature">>)

addSignatureAndValidateTransaction(transaction, signature, publicKeyHex) ==
    ValidateSigned(setSignature(transaction, signature, publicKeyHex), signature)

UnsupportedCurve(curve) ==
    RetError("Unsupported curve : " \o curve
                 \o ". Only Secp256K1 && Ed25519 are supported.")

\* sign, after the dialog was approved
SignTransaction(transaction, addressKey, publicKeyHex, message, addressIndex) ==
    IF addressKey.hasPrivateKey
    THEN IF addressKey.curve = "ed25519"
         THEN addSignatureAndValidateTransaction(
                  transaction, Ed25519Sign(message, addressKey), publicKeyHex)
         ELSE IF addressKey.curve = "secp256k1"
         THEN addSignatureAndValidateTransaction(
                  transaction, Secp256k1Sign(message, addressKey), publicKeyHex)
         ELSE Outcome(transaction, NoSignature, UnsupportedCurve(addressKey.curve), <<>>)
    ELSE Outcome(transaction, NoSignature,
                 RetError("No private key associated with the account "
                              \o IndexString(addressIndex) \o "."),
                 <<>>)

\* if (!response) return false
Declined_Never(response) == FALSE

Declined(response) == response = "rejected"

\* sign, from the dialog's answer on
SignAfterDialog(response, transaction, addressKey, publicKeyHex, message, addressIndex) ==
    IF Declined(response) THEN Outcome(transaction, NoSignature, RetFalse, <<>>)
    ELSE SignTransaction(transaction, addressKey, publicKeyHex, message, addressIndex)

\* Buffer.from(`Casper Message:\n${message}`)
MessageBytes(message) == "Casper Message:\n" \o message

SignedMessage(signature) ==
    Outcome(NoTransaction, signature, RetSignature([hex |-> signature]), <<"sign">>)

\* signMessage, from the dialog's answer on
SignMessageAfterDialog(response, addressKey, messageBytes) ==
    IF Declined(response) THEN Outcome(NoTransaction, NoSignature, RetFalse, <<>>)
    ELSE IF addressKey.hasPrivateKey
    THEN IF addressKey.curve = "ed25519"
         THEN SignedMessage(Ed25519Sign(messageBytes, addressKey))
         ELSE IF addressKey.curve = "secp256k1"
         THEN SignedMessage(Secp256k1Sign(messageBytes, addressKey))
         ELSE Outcome(NoTransaction, NoSignature, UnsupportedCurve(addressKey.curve), <<>>)
    ELSE Outcome(NoTransaction, NoSignature,
                 RetError("No private key associated with the account."), <<>>)

(***************************************************************************)
(* The requests the model sends.                                           *)
(***************************************************************************)
NoSession ==
    [transfer |-> NoItem, moduleBytes |-> NoItem, storedContractByHash |-> NoItem,
     storedContractByName |-> NoItem, storedVersionedContractByHash |-> NoItem,
     storedVersionedContractByName |-> NoItem, bytes |-> "0,0"]

SampleDeploy(hash, session, bodyValid) ==
    [variant |-> "deploy", hash |-> hash,
     initiatorAddr |-> [hasPublicKey |-> TRUE, publicKeyHex |-> "0203ab",
                        accountHashHex |-> ""],
     bodyHash |-> <<11, 13>>, chainName |-> "casper-test", gasPrice |-> "1",
     session |-> session, args |-> <<>>,
     entryPoint |-> [hasCustomEntryPoint |-> FALSE, customEntryPoint |-> "",
                     type |-> "", bytesHex |-> <<>>],
     approvals |-> <<>>, bodyValid |-> bodyValid]

TransferSession ==
    [NoSession EXCEPT !.transfer = TransferWith(<<"2", "5">> \o Zeros(8))]

SampleV1 ==
    [variant |-> "v1", hash |-> <<3, 255>>,
     initiatorAddr |-> [hasPublicKey |-> FALSE, publicKeyHex |-> "",
                        accountHashHex |-> "9f1e"],
     bodyHash |-> <<>>, chainName |-> "casper-test", gasPrice |-> "1",
     session |-> NoSession, args |-> <<<<"ids", EmptyList>>>>,
     entryPoint |-> [hasCustomEntryPoint |-> TRUE, customEntryPoint |-> "mint",
                     type |-> "Custom", bytesHex |-> <<"0", "1">>],
     approvals |-> <<>>, bodyValid |-> TRUE]

\* request.params.deployJson: unparseable; a transfer; a contract call whose body
\* does not match its hashes; a deploy whose session holds no known item; a
\* TransactionV1
DeployJsons ==
    {MalformedJson,
     JsonOf(SampleDeploy(<<171, 18>>, TransferSession, TRUE)),
     JsonOf(SampleDeploy(
         <<4, 210>>,
         [NoSession EXCEPT
             !.storedContractByName =
                 Item(<<<<"amount", CLNumber("U512", <<"7">>)>>, <<"memo", CLUnit>>>>,
                      "delegate")],
         FALSE)),
     JsonOf(SampleDeploy(<<96, 7>>, NoSession, TRUE)),
     JsonOf(SampleV1)}

NewInvocation ==
    [pc |-> "idle", method |-> "", addressIndex |-> 0, deployJson |-> MalformedJson,
     message |-> "", publicKeyHex |-> "", addressKey |-> NoKey,
     transaction |-> NoTransaction, shown |-> [deployHash |-> <<>>], response |-> "none",
     signature |-> NoSignature, result |-> NoResult, log |-> <<>>]

\* the addressIndex parameter of invocation i
AddressIndexOf_Shared(i) == inv[1].addressIndex

AddressIndexOf(i) == inv[i].addressIndex

\* the invocation returns or throws
Done(r, result, events) ==
    [r EXCEPT !.pc = "done", !.result = result, !.log = @ \o events]

Finish(r, outcome) ==
    [r EXCEPT !.pc = "done", !.transaction = outcome.transaction,
              !.signature = outcome.signature, !.result = outcome.result,
              !.log = @ \o outcome.events]

Update(i, r) == inv' = [inv EXCEPT ![i] = r]

Init ==
    /\ wallet \in Wallets
    /\ inv = [i \in Invocations |-> NewInvocation]
    /\ motes = <<>>
    /\ transferArgs = <<>>
    /\ fmtArg = CLUnit
    /\ fmtOut = DStr("")
    /\ decodeTx = <<>>
    /\ decodeView = <<>>

\* onRpcRequest, up to the first await of the operation it dispatches to.
\* Invocations are numbered in the order they arrive.
RpcRequest(i) ==
    /\ inv[i].pc = "idle"
    /\ \A j \in 1..(i - 1) : inv[j].pc # "idle"
    /\ \/ Update(i, Done([inv[i] EXCEPT !.method = "foo"],
                         ThrownError("Method not found."), <<>>))
       \/ \E idx \in AddressIndices :
             Update(i, [inv[i] EXCEPT !.method = "casper_getAccount",
                                      !.addressIndex = idx, !.pc = "ga_key"])
       \/ \E idx \in AddressIndices, json \in DeployJsons :
             Update(i, [inv[i] EXCEPT !.method = "casper_sign",
                                      !.addressIndex = idx, !.deployJson = json,
                                      !.pc = "s_address"])
       \/ \E idx \in AddressIndices :
             Update(i, [inv[i] EXCEPT !.method = "casper_signMessage",
                                      !.addressIndex = idx, !.message = "hello",
                                      !.pc = "m_key"])
    /\ UNCHANGED <<wallet, motesVars, fmtVars, decodeVars>>

AddressResult(r, address) ==
    Done(r, IF address.threw THEN ThrownError(address.message) ELSE address.value,
         <<"getCSPRAddress">>)

\* casper_getAccount: getCSPRAddress resumes with the derived key
GetAccountResolve(i) ==
    /\ inv[i].pc = "ga_key"
    /\ Update(i, AddressResult(inv[i],
                               getCSPRAddress(bip44Nodeaddr(AddressIndexOf(i), wallet))))
    /\ UNCHANGED <<wallet, motesVars, fmtVars, decodeVars>>

\* sign, lines 250-259: the transaction is parsed inside the try
SignWithTransaction(r, parsed) ==
    IF parsed.threw
    THEN Done(r, CaughtError(parsed.message), <<"getCSPRAddress", "fromJson">>)
    ELSE [r EXCEPT !.transaction = parsed.value, !.pc = "s_key",
                   !.log = @ \o <<"getCSPRAddress", "fromJson">>]

\* sign, lines 245-248: getCSPRAddress is awaited outside the try
SignWithAddress(r, addressIndex, address) ==
    IF address.threw
    THEN Done(r, ThrownError(address.message), <<"getCSPRAddress">>)
    ELSE IF address.value.type # "publicKey"
    THEN Done(r, RetError("Unable to get public key at index "
                              \o IndexString(addressIndex) \o "."),
              <<"getCSPRAddress">>)
    ELSE SignWithTransaction([r EXCEPT !.publicKeyHex = address.value.publicKey],
                             TransactionFromJson(r.deployJson))

SignResolveAddress(i) ==
    /\ inv[i].pc = "s_address"
    /\ Update(i, SignWithAddress(inv[i], AddressIndexOf(i),
                                 getCSPRAddress(bip44Nodeaddr(AddressIndexOf(i), wallet))))
    /\ UNCHANGED <<wallet, motesVars, fmtVars, decodeVars>>

\* promptUserDeployInfo: the view is built, then shown
promptUserDeployInfo(r, deployInfo) ==
    IF deployInfo.threw
    THEN Done(r, CaughtError(deployInfo.message), <<"addressKey", "transactionToObject">>)
    ELSE [r EXCEPT !.shown = deployInfo.value, !.pc = "s_dialog",
                   !.log = @ \o <<"addressKey", "transactionToObject", "snap_dialog">>]

\* sign, lines 260-265
SignWithKey(r, derived) ==
    IF derived.threw THEN Done(r, CaughtError(derived.message), <<"addressKey">>)
    ELSE promptUserDeployInfo([r EXCEPT !.addressKey = derived.value],
                              transactionToObject(r.transaction, r.publicKeyHex))

SignResolveKey(i) ==
    /\ inv[i].pc = "s_key"
    /\ Update(i, SignWithKey(inv[i], bip44Nodeaddr(AddressIndexOf(i), wallet)))
    /\ UNCHANGED <<wallet, motesVars, fmtVars, decodeVars>>

\* sign, lines 266-308: the dialog answers
SignDialogAnswer(i) ==
    /\ inv[i].pc = "s_dialog"
    /\ \E response \in {"approved", "rejected"} :
          Update(i, Finish([inv[i] EXCEPT !.response = response],
                           SignAfterDialog(response, inv[i].transaction,
                                           inv[i].addressKey, inv[i].publicKeyHex,
                                           messageOf(inv[i].transaction),
                                           AddressIndexOf(i))))
    /\ UNCHANGED <<wallet, motesVars, fmtVars, decodeVars>>

\* signMessage, lines 319-326
MsgWithKey(r, derived) ==
    IF derived.threw THEN Done(r, ThrownError(derived.message), <<"addressKey">>)
    ELSE [r EXCEPT !.addressKey = derived.value, !.pc = "m_address",
                   !.log = @ \o <<"addressKey">>]

MsgResolveKey(i) ==
    /\ inv[i].pc = "m_key"
    /\ Update(i, MsgWithKey(inv[i], bip44Nodeaddr(AddressIndexOf(i), wallet)))
    /\ UNCHANGED <<wallet, motesVars, fmtVars, decodeVars>>

\* signMessage, lines 330-350
MsgWithAddress(r, address) ==
    IF address.threw THEN Done(r, ThrownError(address.message), <<"getCSPRAddress">>)
    ELSE [r EXCEPT !.publicKeyHex = IF address.value.type = "publicKey"
                                    THEN address.value.publicKey ELSE "",
                   !.pc = "m_dialog",
                   !.log = @ \o <<"getCSPRAddress", "snap_dialog">>]

MsgResolveAddress(i) ==
    /\ inv[i].pc = "m_address"
    /\ Update(i, MsgWithAddress(inv[i],
                                getCSPRAddress(bip44Nodeaddr(AddressIndexOf(i), wallet))))
    /\ UNCHANGED <<wallet, motesVars, fmtVars, decodeVars>>

\* signMessage, lines 352-373: the dialog answers
MsgDialogAnswer(i) ==
    /\ inv[i].pc = "m_dialog"
    /\ \E response \in {"approved", "rejected"} :
          Update(i, Finish([inv[i] EXCEPT !.response = response],
                           SignMessageAfterDialog(response, inv[i].addressKey,
                                                  MessageBytes(inv[i].message))))
    /\ UNCHANGED <<wallet, motesVars, fmtVars, decodeVars>>

Next ==
    \E i \in Invocations :
        \/ RpcRequest(i)
        \/ GetAccountResolve(i)
        \/ SignResolveAddress(i)
        \/ SignResolveKey(i)
        \/ SignDialogAnswer(i)
        \/ MsgResolveKey(i)
        \/ MsgResolveAddress(i)
        \/ MsgDialogAnswer(i)

Spec == Init /\ [][Next]_vars

(***************************************************************************)
(* Properties of the RPC surface (specification Spec).                     *)
(***************************************************************************)
Has(log, e) == \E k \in 1..Len(log) : log[k] = e

Finished(i) == inv[i].pc = "done"

IsSign(i) == inv[i].method = "casper_sign"

IsSignMessage(i) == inv[i].method = "casper_signMessage"

Rejected(i) == inv[i].response = "rejected"

Approved(i) == inv[i].response = "approved"

Unsigned(i) ==
    /\ inv[i].signature.alg = "none"
    /\ ~Has(inv[i].log, "sign")
    /\ ~Has(inv[i].log, "setSignature")
    /\ ~Has(inv[i].log, "validate")

\* C1: in sign and in signMessage, a rejected confirmation makes the operation
\* return the boolean false; in that run no signature is computed and the
\* transaction object is left as it was parsed, without any added approval.
C1_DeclineReturnsFalse ==
    \A i \in Invocations :
        Rejected(i) =>
            /\ Finished(i)
            /\ inv[i].result = RetFalse
            /\ Unsigned(i)
            /\ IsSign(i) => inv[i].transaction = inv[i].deployJson.transaction

C1_Witness ==
    \E i, j \in Invocations :
        /\ IsSign(i) /\ Rejected(i) /\ inv[i].result = RetFalse
        /\ IsSignMessage(j) /\ Rejected(j) /\ inv[j].result = RetFalse

SupportedCurves == {"ed25519", "secp256k1"}

\* the bytes the operation signs
PayloadOf(i) ==
    IF IsSign(i) THEN inv[i].deployJson.transaction.hash
    ELSE MessageBytes(inv[i].message)

\* C2 as claimed: after an approved confirmation every key tagged ed25519 or
\* secp256k1 produces a signature, and every other tag yields the
\* unsupported-curve error and no signature.
C2_CurveDispatchTotal ==
    \A i \in Invocations :
        Approved(i) =>
            IF wallet.curve \in SupportedCurves
            THEN inv[i].signature.alg = wallet.curve
            ELSE /\ inv[i].result = UnsupportedCurve(wallet.curve)
                 /\ inv[i].signature.alg = "none"

\* C2, amended: after an approved confirmation, a key that carries private key
\* bytes and is tagged ed25519 signs the payload itself, one tagged secp256k1
\* signs the payload's SHA-256 digest, and one with any other tag yields the
\* unsupported-curve error naming the tag and no signature; a key without
\* private key bytes yields the no-private-key error and no signature, whatever
\* its tag.
C2_CurveDispatchWithPrivateKey ==
    \A i \in Invocations :
        Approved(i) =>
            IF ~wallet.hasPrivateKey
            THEN /\ inv[i].result.type = "error"
                 /\ inv[i].result # UnsupportedCurve(wallet.curve)
                 /\ Unsigned(i)
            ELSE IF wallet.curve \in SupportedCurves
            THEN /\ inv[i].signature.alg = wallet.curve
                 /\ inv[i].signature.signed = PayloadOf(i)
                 /\ inv[i].signature.digest = DigestOf(wallet.curve)
                 /\ Has(inv[i].log, "sign")
            ELSE /\ inv[i].result = UnsupportedCurve(wallet.curve)
                 /\ Unsigned(i)

C2_Witness ==
    /\ wallet.curve = "secp256k1"
    /\ wallet.hasPrivateKey
    /\ \E i, j \in Invocations :
          /\ IsSign(i) /\ Approved(i) /\ inv[i].signature.digest = "sha256"
          /\ IsSignMessage(j) /\ Approved(j) /\ inv[j].result.type = "signature"

InvalidIndexError ==
    ThrownError("Invalid BIP-32 index: Must be a non-negative integer.")

\* C3: a request made with a negative derivation index fails with the key
\* derivation error, and its run never shows the dialog, signs, attaches or
\* validates.
C3_NegativeIndexFailsFast ==
    \A i \in Invocations :
        (inv[i].pc # "idle" /\ inv[i].addressIndex < 0) =>
            /\ Unsigned(i)
            /\ ~Has(inv[i].log, "snap_dialog")
            /\ inv[i].response = "none"
            /\ Finished(i) => inv[i].result = InvalidIndexError

C3_Witness ==
    \E i, j \in Invocations :
        /\ inv[i].addressIndex < 0 /\ inv[j].addressIndex < 0
        /\ Finished(i) /\ Finished(j)
        /\ inv[i].method \in {"casper_sign", "casper_signMessage"}
        /\ inv[j].method = "casper_getAccount"

MethodNotFound == ThrownError("Method not found.")

\* C4 as claimed: only an unknown method is thrown, without any collaborator
\* call; every other failure is an {error} result.
C4_OnlyMethodNotFoundThrown ==
    \A i \in Invocations :
        Finished(i) =>
            IF inv[i].method = "foo"
            THEN inv[i].result = MethodNotFound /\ inv[i].log = <<>>
            ELSE inv[i].result.type # "thrown"

\* C4, amended: an unknown method is thrown as 'Method not found.' without any
\* collaborator call; the failure of an operation's first key derivation is
\* thrown too, with the deriver's message; every other failure (a malformed
\* transaction, an unparseable session, an unsupported curve, a failed
\* validation after signing, a missing public or private key) is an {error}
\* result.
C4_ThrownOrErrorResult ==
    \A i \in Invocations :
        Finished(i) =>
            IF inv[i].method = "foo"
            THEN inv[i].result = MethodNotFound /\ inv[i].log = <<>>
            ELSE IF inv[i].addressIndex < 0
            THEN inv[i].result = InvalidIndexError
            ELSE /\ inv[i].result.type \in
                        {"publicKey", "error", "false", "deploy", "signature"}
                 /\ (IsSign(i) /\ inv[i].result.type \notin {"false", "deploy"})
                        => inv[i].result.type = "error"
                 /\ (Approved(i) /\ inv[i].result.type \notin {"deploy", "signature"})
                        => inv[i].result.type = "error"

\* a deploy whose session could not be parsed came back as an {error} result
C4_Witness ==
    \E i \in Invocations :
        /\ IsSign(i) /\ Finished(i)
        /\ inv[i].deployJson.wellFormed
        /\ inv[i].transaction.variant = "deploy"
        /\ ~Has(inv[i].log, "snap_dialog")
        /\ Has(inv[i].log, "transactionToObject")
        /\ inv[i].result.type = "error"

\* the stage of section 4.3 a call of sign belongs to: the key is resolved (1),
\* the decoded view is shown (2), signing (3), attached (4), validated (5)
StageOf(e) ==
    CASE e \in {"getCSPRAddress", "fromJson", "addressKey"} -> 1
      [] e \in {"transactionToObject", "snap_dialog"} -> 2
      [] e = "sign" -> 3
      [] e = "setSignature" -> 4
      [] e = "validate" -> 5

LastOf(log) == IF log = <<>> THEN "" ELSE log[Len(log)]

\* C5: the calls of a sign run go through the stages in order, no call is made
\* twice and no stage is entered again after a later one, signing happens only
\* after the dialog was shown and approved, and a finished run holds exactly one
\* outcome: the signed transaction after validation, false after the dialog, or
\* an error.
C5_LinearPass ==
    \A i \in Invocations :
        IsSign(i) =>
            /\ \A k, l \in 1..Len(inv[i].log) :
                  k < l => /\ StageOf(inv[i].log[k]) <= StageOf(inv[i].log[l])
                           /\ inv[i].log[k] # inv[i].log[l]
            /\ Has(inv[i].log, "sign") =>
                  /\ Approved(i)
                  /\ Has(inv[i].log, "snap_dialog")
            /\ Has(inv[i].log, "validate") => Has(inv[i].log, "setSignature")
            /\ Has(inv[i].log, "setSignature") => Has(inv[i].log, "sign")
            /\ Finished(i) <=> inv[i].result # NoResult
            /\ Finished(i) =>
                  /\ inv[i].result.type \in {"deploy", "false", "error", "thrown"}
                  /\ inv[i].result.type = "deploy" => LastOf(inv[i].log) = "validate"
                  /\ inv[i].result.type = "false" => LastOf(inv[i].log) = "snap_dialog"

C5_Witness ==
    \E i \in Invocations :
        /\ IsSign(i)
        /\ inv[i].log = <<"getCSPRAddress", "fromJson", "addressKey",
                           "transactionToObject", "snap_dialog", "sign",
                           "setSignature", "validate">>
        /\ inv[i].result.type = "deploy"

ValidationError == RetError("Unable to verify deploy after signature.")

\* C6: sign returns {deploy} only when the signature it computed and the
\* signer's public key were attached to the transaction and the transaction then
\* validated; when validation fails after attaching, the result is the
\* validation error, not false and not a deploy.
C6_DeployOnlyWhenValidated ==
    \A i \in Invocations :
        (IsSign(i) /\ Finished(i)) =>
            /\ inv[i].result.type = "deploy" =>
                  /\ inv[i].result.deploy = JsonOf(inv[i].transaction)
                  /\ inv[i].signature.alg # "none"
                  /\ inv[i].transaction.approvals =
                        Append(inv[i].deployJson.transaction.approvals,
                               [signer |-> inv[i].publicKeyHex,
                                signature |-> inv[i].signature])
                  /\ validate(inv[i].transaction)
                  /\ Has(inv[i].log, "setSignature")
            /\ (Has(inv[i].log, "setSignature") /\ ~validate(inv[i].transaction)) =>
                  /\ inv[i].result = ValidationError
                  /\ inv[i].transaction.approvals # <<>>

C6_Witness ==
    \E i \in Invocations :
        /\ IsSign(i) /\ Finished(i)
        /\ Has(inv[i].log, "setSignature")
        /\ ~validate(inv[i].transaction)
        /\ inv[i].result = ValidationError

\* C7: the hash of the signed transaction sign returns is the hash shown to the
\* user as 'Deploy Hash', the hash of the transaction as it was parsed, and the
\* bytes that were signed.
C7_HashShownIsHashSigned ==
    \A i \in Invocations :
        (IsSign(i) /\ inv[i].result.type = "deploy") =>
            /\ toHex(inv[i].result.deploy.transaction.hash) = inv[i].shown.deployHash
            /\ inv[i].result.deploy.transaction.hash =
                  inv[i].deployJson.transaction.hash
            /\ inv[i].signature.signed = BufferFromHex(inv[i].shown.deployHash)

C7_Witness ==
    \E i \in Invocations :
        /\ IsSign(i)
        /\ inv[i].result.type = "deploy"
        /\ inv[i].result.deploy.transaction.variant = "deploy"
        /\ inv[i].shown.deployHash = <<"a", "b", "1", "2">>
        /\ Len(inv[i].result.deploy.transaction.approvals) = 1

\* what an operation returns when it runs alone, from its inputs and the answers
\* of the key derivation and of the dialog
SignAloneShown(response, transaction, key, publicKeyHex, addressIndex, view) ==
    IF view.threw THEN CaughtError(view.message)
    ELSE SignAfterDialog(response, transaction, key, publicKeyHex,
                         messageOf(transaction), addressIndex).result

SignAloneParsed(response, parsed, key, publicKeyHex, addressIndex) ==
    IF parsed.threw THEN CaughtError(parsed.message)
    ELSE SignAloneShown(response, parsed.value, key, publicKeyHex, addressIndex,
                        transactionToObject(parsed.value, publicKeyHex))

SignAlone(addressIndex, deployJson, response, address, key) ==
    IF address.threw THEN ThrownError(address.message)
    ELSE IF address.value.type # "publicKey"
    THEN RetError("Unable to get public key at index "
                      \o IndexString(addressIndex) \o ".")
    ELSE SignAloneParsed(response, TransactionFromJson(deployJson), key,
                         address.value.publicKey, addressIndex)

SignMessageAlone(message, response, derived) ==
    IF derived.threw THEN ThrownError(derived.message)
    ELSE SignMessageAfterDialog(response, derived.value, MessageBytes(message)).result

GetAccountAlone(address) ==
    IF address.threw THEN ThrownError(address.message) ELSE address.value

ResultAlone(r) ==
    CASE r.method = "casper_getAccount" ->
            GetAccountAlone(getCSPRAddress(bip44Nodeaddr(r.addressIndex, wallet)))
      [] r.method = "casper_sign" ->
            SignAlone(r.addressIndex, r.deployJson, r.response,
                      getCSPRAddress(bip44Nodeaddr(r.addressIndex, wallet)), wallet)
      [] r.method = "casper_signMessage" ->
            SignMessageAlone(r.message, r.response,
                             bip44Nodeaddr(r.addressIndex, wallet))
      [] OTHER -> MethodNotFound

\* C8: however the invocations interleave at their awaits, each finished
\* invocation holds the result it produces alone from its own inputs and the
\* collaborators' answers to it.
C8_ResultAsAlone ==
    \A i \in Invocations : Finished(i) => inv[i].result = ResultAlone(inv[i])

\* the second invocation arrived after the first, ran to its decline and
\* returned while the first is still waiting for its dialog
C8_Witness ==
    /\ MaxInvocations >= 2
    /\ inv[1].pc = "s_dialog"
    /\ inv[1].addressIndex = 0
    /\ IsSign(2) /\ Finished(2) /\ Rejected(2)
    /\ inv[2].result = RetFalse

(***************************************************************************)
(* SpecDecode: transactionToObject over legacy deploys whose session holds *)
(* any of its six items, and over TransactionV1s, declaring up to MaxArgs  *)
(* arguments.  Every stored-contract item names its own entry point, so    *)
(* the view tells which item was read.                                     *)
(***************************************************************************)
ArgNames == {"amount", "b", "0", "1", "Entry Point"}

ArgValues == {CLUnit, CLNumber("U512", <<"7">>)}

\* the session that holds the items named in present, its non-transfer items
\* declaring args
SessionOf(present, args) ==
    [transfer |-> IF "transfer" \in present THEN TransferSession.transfer ELSE NoItem,
     moduleBytes |-> IF "moduleBytes" \in present THEN Item(args, "") ELSE NoItem,
     storedContractByHash |->
         IF "storedContractByHash" \in present THEN Item(args, "byHash") ELSE NoItem,
     storedContractByName |->
         IF "storedContractByName" \in present THEN Item(args, "byName") ELSE NoItem,
     storedVersionedContractByHash |->
         IF "storedVersionedContractByHash" \in present
         THEN Item(args, "versionedByHash") ELSE NoItem,
     storedVersionedContractByName |->
         IF "storedVersionedContractByName" \in present
         THEN Item(args, "versionedByName") ELSE NoItem,
     bytes |-> "0,0"]

\* the arguments the transaction declares
DeclaredArgs(tx) ==
    IF tx.variant = "v1" THEN tx.args
    ELSE IF \E n \in DOMAIN tx.session \ {"transfer", "bytes"} : tx.session[n].present
    THEN tx.session[CHOOSE n \in DOMAIN tx.session \ {"transfer", "bytes"} :
                        tx.session[n].present].args
    ELSE <<>>

\* transactionToObject(transaction, signingKey)
Decode(tx) ==
    /\ decodeTx' = tx
    /\ decodeView' = transactionToObject(tx, "0203ab")
    /\ UNCHANGED <<motesVars, fmtVars, rpcVars>>

DecodeInit ==
    /\ decodeTx \in {SampleDeploy(<<171, 18>>, NoSession, TRUE),
                     [SampleV1 EXCEPT !.args = <<>>],
                     [SampleV1 EXCEPT !.args = <<>>,
                                      !.entryPoint.hasCustomEntryPoint = FALSE]}
    /\ decodeView = transactionToObject(decodeTx, "0203ab")
    /\ motes = <<>>
    /\ transferArgs = <<>>
    /\ fmtArg = CLUnit
    /\ fmtOut = DStr("")
    /\ wallet = NoKey
    /\ inv = <<>>

\* the session gains one more of its six items
AddSessionItem ==
    /\ decodeTx.variant = "deploy"
    /\ \E name \in DOMAIN decodeTx.session \ {"bytes"} :
          /\ ~decodeTx.session[name].present
          /\ Decode([decodeTx EXCEPT
                        !.session =
                            SessionOf({n \in DOMAIN @ \ {"bytes"} : @[n].present}
                                          \cup {name},
                                      DeclaredArgs(decodeTx))])

\* the session's items, or the payload, declare one more argument
AddArgument ==
    /\ Len(DeclaredArgs(decodeTx)) < MaxArgs
    /\ \E name \in ArgNames, value \in ArgValues :
          /\ ~HasKey(DeclaredArgs(decodeTx), name)
          /\ IF decodeTx.variant = "v1"
             THEN Decode([decodeTx EXCEPT !.args = Append(@, <<name, value>>)])
             ELSE /\ \E n \in DOMAIN decodeTx.session \ {"transfer", "bytes"} :
                        decodeTx.session[n].present
                  /\ Decode([decodeTx EXCEPT
                                !.session =
                                    SessionOf({n \in DOMAIN @ \ {"bytes"} : @[n].present},
                                              Append(DeclaredArgs(decodeTx),
                                                     <<name, value>>))])

DecodeNext == AddSessionItem \/ AddArgument

SpecDecode == DecodeInit /\ [][DecodeNext]_vars

(***************************************************************************)
(* Properties of transactionToObject (specification SpecDecode).           *)
(***************************************************************************)
\* the session items in the order the kinds are decided, with their kinds
ItemPriority ==
    <<"transfer", "moduleBytes", "storedContractByHash", "storedContractByName",
      "storedVersionedContractByHash", "storedVersionedContractByName">>

KindOfItem ==
    <<"Transfer", "WASM-Based Deploy", "Contract Call", "Contract Call",
      "Contract Package Call", "Contract Package Call">>

\* the place in ItemPriority of the first item the session holds, 0 when none
FirstItem(session) ==
    IF \A k \in 1..6 : ~session[ItemPriority[k]].present THEN 0
    ELSE CHOOSE k \in 1..6 :
            /\ session[ItemPriority[k]].present
            /\ \A l \in 1..(k - 1) : ~session[ItemPriority[l]].present

\* the view shows the arguments of the k-th item of the session
RendersItem(view, session, k) ==
    CASE k = 1 -> view.deployArgs = parseTransferData(session.transfer)
      [] k = 2 -> /\ view.deployArgs = ParseArgsInto(<<>>, session.moduleBytes.args)
                  /\ HasKey(view.deployArgs, "Entry Point")
                        => HasKey(session.moduleBytes.args, "Entry Point")
      [] OTHER -> /\ HasKey(view.deployArgs, "Entry Point")
                  /\ GetKey(view.deployArgs, "Entry Point") =
                        DStr(session[ItemPriority[k]].entryPoint)

\* C11: decoding a legacy deploy labels it with the kind of the first item its
\* session holds, in the order transfer, module bytes, stored contract by hash or
\* name, versioned stored contract by hash or name, and renders the arguments
\* of that same item; a session that holds none of the six items makes decoding
\* throw the error that carries the session bytes, and no view is returned.
C11_KindByPriority ==
    decodeTx.variant = "deploy" =>
        IF FirstItem(decodeTx.session) = 0
        THEN /\ decodeView.threw
             /\ decodeView.message =
                   "Stored Contract could not be parsed. Provided session code: "
                       \o decodeTx.session.bytes
        ELSE /\ ~decodeView.threw
             /\ decodeView.value.deployType =
                   KindOfItem[FirstItem(decodeTx.session)]
             /\ RendersItem(decodeView.value, decodeTx.session,
                            FirstItem(decodeTx.session))

\* a session that holds a transfer next to module bytes and a stored contract
C11_Witness ==
    /\ decodeTx.variant = "deploy"
    /\ decodeTx.session.transfer.present
    /\ decodeTx.session.moduleBytes.present
    /\ decodeTx.session.storedContractByName.present
    /\ ~decodeView.threw
    /\ decodeView.value.deployType = "Transfer"
    /\ HasKey(decodeView.value.deployArgs, "Recipient")

\* the rows of the confirmation dialog: Object.entries(deployInfo.deployArgs)
DialogRows == ObjectEntries(decodeView.value.deployArgs)

\* the view renders declared arguments: a TransactionV1, or a legacy deploy whose
\* first item is not a transfer
RendersDeclaredArgs ==
    /\ ~decodeView.threw
    /\ decodeTx.variant = "deploy" => FirstItem(decodeTx.session) >= 2

NamesOf(rows) == [i \in 1..Len(rows) |-> rows[i][1]]

\* C12: for every non-transfer legacy session and every TransactionV1, each
\* declared argument is a row of the dialog under its own name with its
\* formatted value, the rows of the declared arguments come in declaration
\* order whatever the names are, and a stored-contract session also has an
\* 'Entry Point' row holding the entry point's name.
C12_ArgumentsInDeclarationOrder ==
    RendersDeclaredArgs =>
        LET declared == DeclaredArgs(decodeTx)
            IsDeclared(name) == HasKey(declared, name)
        IN  /\ \A i \in 1..Len(declared) :
                  /\ HasKey(DialogRows, declared[i][1])
                  /\ GetKey(DialogRows, declared[i][1]) =
                        parseDeployArg(declared[i][2])
            /\ SelectSeq(NamesOf(DialogRows), IsDeclared) = NamesOf(declared)
            /\ (decodeTx.variant = "deploy" /\ FirstItem(decodeTx.session) >= 3) =>
                  /\ HasKey(DialogRows, "Entry Point")
                  /\ GetKey(DialogRows, "Entry Point") =
                        DStr(decodeTx.session[
                                 ItemPriority[FirstItem(decodeTx.session)]].entryPoint)

(***************************************************************************)
(* Properties of parseDeployArg's sequences (specification SpecFormat).    *)
(***************************************************************************)
\* the values parseDeployArg renders as a sequence: a List or a Tuple2/Tuple3,
\* also inside present Options and Tuple1s
ListShaped(v) == Core(v).tag \in {"List", "Tuple2", "Tuple3"}

ElementsOf(v) == IF Core(v).tag = "List" THEN Core(v).elements ELSE Core(v).items

=============================================================================
